---------------------------- MODULE Spec2Model ----------------------------
(***************************************************************************)
(* A model of program_core (CoderEx24/alrassam): Vector2, the drawables    *)
(* Line2D, Circle, Rect2 and Text, the Draw trait and the Canvas.          *)
(*                                                                         *)
(* Number representation.  The program computes on f64.  The model keeps   *)
(* every value exact:                                                      *)
(*   - a coordinate, radius or scale factor is an integer, or NaN;         *)
(*   - a length (the result of sqrt) is a "root": the record               *)
(*     [neg, sq] stands for the real number (-1)^neg * sqrt(sq);           *)
(*   - an angle in radians handed to rotate is a whole number n of         *)
(*     quarter turns, standing for n * pi/2;                               *)
(*   - an angle produced by atan is the record [dx, dy, k], standing for   *)
(*     atan(dy/dx) + k * pi/2 with dx > 0, dy >= 0 and gcd(dx, dy) = 1,    *)
(*     which names every such angle exactly once; [0, 0, 0] is NaN;        *)
(*   - circumference and area are integer multiples of pi.                 *)
(* Rounding error of f64 is not modelled: sin and cos of a multiple of     *)
(* pi/2 are taken as exactly 0, 1 or -1.                                   *)
(***************************************************************************)
EXTENDS Integers, Sequences, FiniteSets, TLC

VARIABLES
    drawables,          \* Canvas.drawables: Vec<Drawable>
    width,              \* Canvas.width
    height,             \* Canvas.height
    selected_drawable,  \* Canvas.selected_drawable: <<>> is None, <<i>> is Some(i)
    last,               \* the last call made on the canvas: its name, argument, result
                        \* (ret is a bool, result a Result<_, _>)
    shape,              \* a drawable owned directly by client code (not by a canvas)
    shapeLast,          \* the last call made on shape: its name, argument, result
    file,               \* what Canvas::export handed to std::fs::write, and its result
    calls,              \* how many transforming calls were made (bounds the runs)
    vec,                \* a Vector2 owned directly by client code
    vecLast             \* the last call made on vec: its name, arguments, result

vars == <<drawables, width, height, selected_drawable, last, shape, shapeLast,
          file, calls, vec, vecLast>>

canvasVars == <<drawables, width, height, selected_drawable>>

vecVars == <<vec, vecLast>>

(***************************************************************************)
(* f64 arithmetic with NaN.                                                *)
(***************************************************************************)
NaN == -1000000

FAdd(a, b) == IF a = NaN \/ b = NaN THEN NaN ELSE a + b

FSub(a, b) == IF a = NaN \/ b = NaN THEN NaN ELSE a - b

FMul(a, b) == IF a = NaN \/ b = NaN THEN NaN ELSE a * b

FAbs(a) == IF a = NaN THEN NaN ELSE IF a < 0 THEN -a ELSE a

\* every comparison with NaN is false
FLe(a, b) == a # NaN /\ b # NaN /\ a <= b

Abs(n) == IF n < 0 THEN -n ELSE n

RECURSIVE Gcd(_, _)
Gcd(a, b) == IF b = 0 THEN a ELSE Gcd(b, a % b)

(***************************************************************************)
(* Roots: [neg, sq] is (-1)^neg * sqrt(sq).                                *)
(***************************************************************************)
NaNRoot == [neg |-> FALSE, sq |-> NaN]

\* f64::sqrt of n
Sqrt(n) == IF n = NaN \/ n < 0 THEN NaNRoot ELSE [neg |-> FALSE, sq |-> n]

\* the f64 c as a root
RootOfNum(c) == IF c = NaN THEN NaNRoot ELSE [neg |-> c < 0, sq |-> c * c]

\* root * c
RootMul(r, c) ==
    IF r.sq = NaN \/ c = NaN THEN NaNRoot
    ELSE [neg |-> (r.sq * c * c # 0) /\ (r.neg # (c < 0)), sq |-> r.sq * c * c]

RootSigned(r) == IF r.neg THEN -r.sq ELSE r.sq

\* a <= b; x |-> sign(x) * x^2 is increasing, so the signed squares compare alike
RootLe(a, b) == a.sq # NaN /\ b.sq # NaN /\ RootSigned(a) <= RootSigned(b)

(***************************************************************************)
(* Angles: [dx, dy, k] is atan(dy/dx) + k * pi/2.                          *)
(***************************************************************************)
NaNAngle == [dx |-> 0, dy |-> 0, k |-> 0]

\* (y / x).atan(): y / 0 is +-infinity with atan +-pi/2, and 0 / 0 is NaN
Atan(y, x) ==
    IF x = NaN \/ y = NaN THEN NaNAngle
    ELSE IF x = 0
         THEN IF y = 0 THEN NaNAngle
              ELSE [dx |-> 1, dy |-> 0, k |-> IF y > 0 THEN 1 ELSE -1]
         ELSE LET a == IF x > 0 THEN x ELSE -x
                  b == IF x > 0 THEN y ELSE -y
                  g == Gcd(a, Abs(b))
              IN  IF b >= 0
                  THEN [dx |-> a \div g, dy |-> b \div g, k |-> 0]
                  ELSE [dx |-> (-b) \div g, dy |-> a \div g, k |-> -1]

\* angle + n * pi/2
AngleAdd(a, n) == IF a = NaNAngle THEN NaNAngle ELSE [a EXCEPT !.k = @ + n]

\* the vector (dx, dy) turned by k quarter turns
QuarterTurns(dx, dy, k) ==
    LET m == k % 4
    IN  IF m = 0 THEN <<dx, dy>>
        ELSE IF m = 1 THEN <<-dy, dx>>
        ELSE IF m = 2 THEN <<-dx, -dy>>
        ELSE <<dy, -dx>>

\* the m >= 0 with r = +-m * sqrt(d): a length and an angle held by one
\* Vector2 always come from the same components, so m is a whole number
RootOver(r, d) == CHOOSE m \in 0..r.sq : m * m * d = r.sq

\* r * cos(a)
MulCos(r, a) ==
    IF r.sq = NaN \/ a = NaNAngle THEN NaN
    ELSE LET m == RootOver(r, a.dx * a.dx + a.dy * a.dy)
         IN  (IF r.neg THEN -m ELSE m) * QuarterTurns(a.dx, a.dy, a.k)[1]

\* r * sin(a)
MulSin(r, a) ==
    IF r.sq = NaN \/ a = NaNAngle THEN NaN
    ELSE LET m == RootOver(r, a.dx * a.dx + a.dy * a.dy)
         IN  (IF r.neg THEN -m ELSE m) * QuarterTurns(a.dx, a.dy, a.k)[2]

(***************************************************************************)
(* Vector2 (vector.rs).                                                    *)
(***************************************************************************)
Vector2_new(x, y) ==
    [x |-> x, y |-> y,
     len |-> Sqrt(FAdd(FMul(x, x), FMul(y, y))),
     arg |-> Atan(y, x)]

Vector2_dot(v, rhs) == FAdd(FMul(v.x, rhs.x), FMul(v.y, rhs.y))

\* fault seeded into Vector2::cross: the products are added
Vector2_cross_added(v, rhs) == FAdd(FMul(v.x, rhs.y), FMul(v.y, rhs.x))

Vector2_cross(v, rhs) == FSub(FMul(v.x, rhs.y), FMul(v.y, rhs.x))

Vector2_translate(v, offset) ==
    LET x == FAdd(v.x, offset.x)
        y == FAdd(v.y, offset.y)
    IN  [x |-> x, y |-> y,
         len |-> Sqrt(FAdd(FMul(x, x), FMul(y, y))),
         arg |-> Atan(y, x)]

Vector2_rotate(v, angle) ==
    LET arg == AngleAdd(v.arg, angle)
    IN  [x |-> MulCos(v.len, arg), y |-> MulSin(v.len, arg),
         len |-> v.len, arg |-> arg]

Vector2_scale(v, c) ==
    LET c1 == IF c = 0 THEN 1 ELSE c
    IN  [x |-> FMul(v.x, c1), y |-> FMul(v.y, c1),
         len |-> RootMul(v.len, c1), arg |-> v.arg]

Vector2_add(v, rhs) == Vector2_new(FAdd(v.x, rhs.x), FAdd(v.y, rhs.y))

Vector2_sub(v, rhs) == Vector2_new(FSub(v.x, rhs.x), FSub(v.y, rhs.y))

\* *self = Vector2::new(self.x + rhs.x, self.y + rhs.y)
Vector2_add_assign(v, rhs) == Vector2_new(FAdd(v.x, rhs.x), FAdd(v.y, rhs.y))

\* *self = Vector2::new(self.x - rhs.x, self.y - rhs.y)
Vector2_sub_assign(v, rhs) == Vector2_new(FSub(v.x, rhs.x), FSub(v.y, rhs.y))

\* a <= EPSILON: EPSILON is 2^-52, so on whole numbers it is a <= 0
LeEpsilon(a) == FLe(a, 0)

\* (self.x - rhs.x <= EPSILON) && (self.y - rhs.y <= EPSILON)
equals_vector(v, rhs) == LeEpsilon(FSub(v.x, rhs.x)) /\ LeEpsilon(FSub(v.y, rhs.y))

\* impl PartialEq for Vector2: v == other
Vector2_eq(v, other) == equals_vector(v, other)

(***************************************************************************)
(* Option<T>: <<>> is None, <<v>> is Some(v).                              *)
(***************************************************************************)
None == <<>>

Some(v) == <<v>>

unwrap_or(opt, default) == IF opt = None THEN default ELSE opt[1]

(***************************************************************************)
(* Color (drawable/mod.rs): Color(r, g, b, a).                             *)
(***************************************************************************)
RED == <<255, 0, 0, 1>>

GREEN == <<0, 255, 0, 1>>

BLUE == <<0, 0, 255, 1>>

BLACK == <<255, 255, 255, 1>>

WHITE == <<0, 0, 0, 1>>

(***************************************************************************)
(* Line2D (drawable/line2d.rs).                                            *)
(***************************************************************************)
Line2D_new(start, end, stroke_color, stroke_width, fill) ==
    [type |-> "Line", start |-> start, end |-> end,
     stroke_color |-> unwrap_or(stroke_color, BLUE),
     stroke_width |-> unwrap_or(stroke_width, 5),
     fill |-> unwrap_or(fill, WHITE),
     len |-> Vector2_sub(end, start).len,
     angle |-> Vector2_sub(end, start).arg]

\* fault seeded into Line2D::translate: end stays where it was
Line2D_translate_start_only(line, offset) ==
    [line EXCEPT !.start = Vector2_add(line.start, offset)]

\* start += offset; end += offset
Line2D_translate(line, offset) ==
    [line EXCEPT !.start = Vector2_add(line.start, offset),
                 !.end = Vector2_add(line.end, offset)]

\* end = start + end.rotate(angle); angle += angle
Line2D_rotate(line, angle) ==
    [line EXCEPT !.end = Vector2_add(line.start, Vector2_rotate(line.end, angle)),
                 !.angle = AngleAdd(line.angle, angle)]

Line2D_scale(line, c) ==
    LET diff == Vector2_scale(Vector2_sub(line.end, line.start), c)
    IN  [line EXCEPT !.end = Vector2_add(line.start, diff),
                     !.len = diff.len]

\* EPSILON is 2^-52: on whole numbers |cross| <= EPSILON is cross = 0
Line2D_contains(line, other) ==
    LET diff1 == Vector2_sub(other, line.start)
        diff2 == Vector2_sub(line.end, other)
        maxlen == IF RootLe(diff2.len, diff1.len) THEN diff1.len ELSE diff2.len
    IN  FLe(FAbs(Vector2_cross(diff1, diff2)), 0) /\ RootLe(maxlen, line.len)

(***************************************************************************)
(* Circle (drawable/circle.rs): circumference and area in multiples of pi. *)
(***************************************************************************)
\* fault seeded into Circle::new: the defaults of Line2D::new
Circle_new_line_defaults(center, radius, stroke_color, stroke_width, fill) ==
    [type |-> "Circle", center |-> center, radius |-> radius,
     stroke_color |-> unwrap_or(stroke_color, BLUE),
     stroke_width |-> unwrap_or(stroke_width, 5),
     fill |-> unwrap_or(fill, WHITE),
     circumference |-> FMul(2, radius),
     area |-> FMul(radius, radius)]

Circle_new(center, radius, stroke_color, stroke_width, fill) ==
    [type |-> "Circle", center |-> center, radius |-> radius,
     stroke_color |-> unwrap_or(stroke_color, BLACK),
     stroke_width |-> unwrap_or(stroke_width, 12),
     fill |-> unwrap_or(fill, WHITE),
     circumference |-> FMul(2, radius),
     area |-> FMul(radius, radius)]

\* fault seeded into Circle::translate: the center moves along x only
Circle_translate_along_x(circle, offset) ==
    [circle EXCEPT !.center = Vector2_add(circle.center, Vector2_new(offset.x, 0))]

Circle_translate(circle, offset) ==
    [circle EXCEPT !.center = Vector2_add(circle.center, offset)]

Circle_rotate(circle, angle) == circle

Circle_scale(circle, c) ==
    [circle EXCEPT !.radius = FMul(circle.radius, IF c = 0 THEN 1 ELSE c)]

\* fault seeded into Circle::contains: < in place of <=
Circle_contains_inside(circle, point) ==
    /\ RootLe(Vector2_sub(point, circle.center).len, RootOfNum(circle.radius))
    /\ Vector2_sub(point, circle.center).len # RootOfNum(circle.radius)

Circle_contains(circle, point) ==
    RootLe(Vector2_sub(point, circle.center).len, RootOfNum(circle.radius))

(***************************************************************************)
(* Rect2 (drawable/rect2d.rs): angle in quarter turns.                     *)
(***************************************************************************)
Rect2_new(start, end, stroke_color, stroke_width, fill) ==
    [type |-> "Rect2", start |-> start, diagonal |-> Vector2_sub(end, start),
     angle |-> 0,
     stroke_color |-> unwrap_or(stroke_color, BLACK),
     stroke_width |-> unwrap_or(stroke_width, 12),
     fill |-> unwrap_or(fill, WHITE)]

Rect2_end(rect) == Vector2_add(rect.start, rect.diagonal)

Rect2_dimensions(rect) ==
    <<FAbs(Vector2_rotate(rect.diagonal, -rect.angle).x),
      FAbs(Vector2_rotate(rect.diagonal, -rect.angle).y)>>

Rect2_translate(rect, offset) ==
    [rect EXCEPT !.start = Vector2_add(rect.start, offset)]

Rect2_rotate(rect, angle) ==
    [rect EXCEPT !.angle = rect.angle + angle,
                 !.diagonal = Vector2_rotate(rect.diagonal, angle)]

Rect2_scale(rect, c) ==
    [rect EXCEPT !.diagonal = Vector2_scale(rect.diagonal, c)]

Rect2_contains(rect, point) ==
    LET diff == Vector2_sub(point, rect.start)
    IN  FLe(FAbs(diff.x), FAbs(rect.diagonal.x))
        /\ FLe(FAbs(diff.y), FAbs(rect.diagonal.y))

(***************************************************************************)
(* Text (drawable/text.rs): angle in quarter turns.                        *)
(***************************************************************************)
Text_new(text, pos, angle, fill) ==
    [type |-> "Text", text |-> text, pos |-> pos,
     angle |-> unwrap_or(angle, 0),
     fill |-> unwrap_or(fill, BLACK)]

Text_translate(text, offset) ==
    [text EXCEPT !.pos = Vector2_add(text.pos, offset)]

Text_rotate(text, angle) == [text EXCEPT !.angle = text.angle + angle]

Text_scale(text, c) == text

Text_contains(text, point) == FALSE

(***************************************************************************)
(* The Draw trait's methods, dispatched on the variant.                    *)
(***************************************************************************)
translate(d, offset) ==
    CASE d.type = "Line" -> Line2D_translate(d, offset)
      [] d.type = "Circle" -> Circle_translate(d, offset)
      [] d.type = "Rect2" -> Rect2_translate(d, offset)
      [] d.type = "Text" -> Text_translate(d, offset)

rotate(d, angle) ==
    CASE d.type = "Line" -> Line2D_rotate(d, angle)
      [] d.type = "Circle" -> Circle_rotate(d, angle)
      [] d.type = "Rect2" -> Rect2_rotate(d, angle)
      [] d.type = "Text" -> Text_rotate(d, angle)

scale(d, c) ==
    CASE d.type = "Line" -> Line2D_scale(d, c)
      [] d.type = "Circle" -> Circle_scale(d, c)
      [] d.type = "Rect2" -> Rect2_scale(d, c)
      [] d.type = "Text" -> Text_scale(d, c)

contains(d, point) ==
    CASE d.type = "Line" -> Line2D_contains(d, point)
      [] d.type = "Circle" -> Circle_contains(d, point)
      [] d.type = "Rect2" -> Rect2_contains(d, point)
      [] d.type = "Text" -> Text_contains(d, point)

(***************************************************************************)
(* Text.  A String is a sequence of tokens: each markup character          *)
(* ("<", "/", ">", " ", "=", the double quote) is a token of its own, and  *)
(* so is each decimal digit; a name or a literal piece of a format string  *)
(* is one token.                                                           *)
(***************************************************************************)
DigitChars == <<"0", "1", "2", "3", "4", "5", "6", "7", "8", "9">>

\* the decimal digits of n >= 0
RECURSIVE Digits(_)
Digits(n) ==
    IF n < 10 THEN <<DigitChars[n + 1]>>
    ELSE Digits(n \div 10) \o <<DigitChars[(n % 10) + 1]>>

\* Display of an integer (u8, u16)
IntToString(n) == Digits(n)

\* Display of an f64 that holds a whole number, or NaN: 2.0 prints as "2"
F64ToString(x) ==
    IF x = NaN THEN <<"NaN">>
    ELSE IF x < 0 THEN <<"-">> \o Digits(-x)
    ELSE Digits(x)

\* impl ToString for Color: "rgba({}, {}, {}, {})"
Color_to_string(c) ==
    <<"rgba(">> \o IntToString(c[1]) \o <<",", " ">> \o IntToString(c[2])
        \o <<",", " ">> \o IntToString(c[3]) \o <<",", " ">> \o F64ToString(c[4])
        \o <<")">>

get_svg_tag_name(d) ==
    CASE d.type = "Line" -> "line"
      [] d.type = "Circle" -> "circle"
      [] d.type = "Rect2" -> "rect"
      [] d.type = "Text" -> "text"

\* get_svg_tag_properties: the HashMap as a function from key to value
Line2D_get_svg_tag_properties(line) ==
    [x1 |-> F64ToString(line.start.x),
     y1 |-> F64ToString(line.start.y),
     x2 |-> F64ToString(line.end.x),
     y2 |-> F64ToString(line.end.y),
     style |-> <<"fill:">> \o Color_to_string(line.fill)
                  \o <<";stroke:">> \o Color_to_string(line.stroke_color)
                  \o <<";stroke-width:">> \o IntToString(line.stroke_width)]

Circle_get_svg_tag_properties(circle) ==
    [cx |-> F64ToString(circle.center.x),
     cy |-> F64ToString(circle.center.y),
     r |-> F64ToString(circle.radius)]

Rect2_get_svg_tag_properties(rect) ==
    [x |-> F64ToString(rect.start.x),
     y |-> F64ToString(rect.start.y),
     width |-> F64ToString(rect.diagonal.x),
     height |-> F64ToString(rect.diagonal.y),
     style |-> <<"fill:">> \o Color_to_string(rect.fill)
                  \o <<";stroke:">> \o Color_to_string(rect.stroke_color)
                  \o <<";stroke_width:">> \o IntToString(rect.stroke_width) \o <<";">>]

Text_get_svg_tag_properties(text) ==
    [x |-> F64ToString(text.pos.x),
     y |-> F64ToString(text.pos.y)]

get_svg_tag_properties(d) ==
    CASE d.type = "Line" -> Line2D_get_svg_tag_properties(d)
      [] d.type = "Circle" -> Circle_get_svg_tag_properties(d)
      [] d.type = "Rect2" -> Rect2_get_svg_tag_properties(d)
      [] d.type = "Text" -> Text_get_svg_tag_properties(d)

\* Option<String>
get_svg_inner_content(d) == IF d.type = "Text" THEN Some(d.text) ELSE None

\* The orders in which iterating a HashMap with these keys can yield them:
\* std's HashMap is seeded at random, so every order can come up.
RECURSIVE IterOrders(_)
IterOrders(keys) ==
    IF keys = {} THEN {<<>>}
    ELSE UNION {{<<first>> \o rest : rest \in IterOrders(keys \ {first})} : first \in keys}

RECURSIVE PropertiesText(_, _)
\* the format!(" {}=\"{}\"", key, val) pieces, in the order of iteration
PropertiesText(props, order) ==
    IF order = <<>> THEN <<>>
    ELSE <<" ", Head(order), "=", "\"">> \o props[Head(order)] \o <<"\"">>
            \o PropertiesText(props, Tail(order))

\* Draw::to_svg_tag when the HashMap iterates in the given order
to_svg_tag(d, order) ==
    <<"<", get_svg_tag_name(d)>>
        \o PropertiesText(get_svg_tag_properties(d), order)
        \o (IF get_svg_inner_content(d) # None
            THEN <<">", " ">> \o get_svg_inner_content(d)[1]
                    \o <<" ", "<", get_svg_tag_name(d), "/", ">">>
            ELSE <<"/", ">">>)

\* every text to_svg_tag can return for d
SvgTags(d) == {to_svg_tag(d, order) : order \in IterOrders(DOMAIN get_svg_tag_properties(d))}

RECURSIVE SvgBodiesNewestFirst(_)
\* fault seeded into the loop of export: each fragment is put in front of the
\* text built so far
SvgBodiesNewestFirst(ds) ==
    IF ds = <<>> THEN {<<>>}
    ELSE {tag \o body : body \in SvgBodiesNewestFirst(SubSeq(ds, 1, Len(ds) - 1)),
                        tag \in SvgTags(ds[Len(ds)])}

RECURSIVE SvgBodies(_)
\* every text the loop of export can build for the drawables ds
SvgBodies(ds) ==
    IF ds = <<>> THEN {<<>>}
    ELSE {body \o tag : body \in SvgBodies(SubSeq(ds, 1, Len(ds) - 1)),
                        tag \in SvgTags(ds[Len(ds)])}

\* Canvas::export: every text it can hand to std::fs::write
export ==
    {<<"<", "svg", " ", "width", "=", "\"">> \o IntToString(width)
        \o <<"\"", " ", "height", "=", "\"">> \o IntToString(height) \o <<"\"", ">">>
        \o body \o <<"<", "/", "svg", ">">> : body \in SvgBodies(drawables)}

(***************************************************************************)
(* Bounds and the arguments the calls are made with.                       *)
(***************************************************************************)
MaxDrawables == 2

MaxCalls == 2

CanvasSizes == {<<1920, 1080>>}

\* stroke_color, stroke_width, fill: none given, or all three given
NoStyle == <<None, None, None>>

GivenStyle == <<Some(RED), Some(3), Some(GREEN)>>

LineStyles == {NoStyle, GivenStyle}

CircleStyles == {NoStyle, GivenStyle}

RectStyles == {NoStyle, GivenStyle}

LineArgs == {<<Vector2_new(1, 0), Vector2_new(2, 0)>>}

CircleArgs == {<<Vector2_new(0, 0), 2>>}

RectArgs == {<<Vector2_new(0, 0), Vector2_new(2, 1)>>}

\* in the line, the circle and the rect; in the rect alone; in none
SelectArgs == {Vector2_new(1, 0), Vector2_new(2, 1), Vector2_new(5, 5)}

TranslateArgs == {Vector2_new(1, 2)}

RotateArgs == {1}

ScaleArgs == {0, 2}

(***************************************************************************)
(* Canvas (drawable/canvas.rs).                                            *)
(***************************************************************************)
Canvas_new(w, h) ==
    /\ drawables = <<>>
    /\ width = w
    /\ height = h
    /\ selected_drawable = None

add_line(start, end, stroke_color, stroke_width, fill) ==
    /\ drawables' = Append(drawables, Line2D_new(start, end, stroke_color, stroke_width, fill))
    /\ UNCHANGED <<width, height, selected_drawable>>

\* fault seeded into add_circle: the circle is put in front of the others
add_circle_in_front(center, radius, stroke_color, stroke_width, fill) ==
    /\ drawables' = <<Circle_new(center, radius, stroke_color, stroke_width, fill)>> \o drawables
    /\ UNCHANGED <<width, height, selected_drawable>>

add_circle(center, radius, stroke_color, stroke_width, fill) ==
    /\ drawables' = Append(drawables, Circle_new(center, radius, stroke_color, stroke_width, fill))
    /\ UNCHANGED <<width, height, selected_drawable>>

add_rect(start, end, stroke_color, stroke_width, fill) ==
    /\ drawables' = Append(drawables, Rect2_new(start, end, stroke_color, stroke_width, fill))
    /\ UNCHANGED <<width, height, selected_drawable>>

\* the indices (from 0) of the drawables that contain pos
Hits(pos) == {index \in 0..(Len(drawables) - 1) : contains(drawables[index + 1], pos)}

\* fault seeded into select_drawable_at: the scan does not stop at the first
\* hit, so the last one stays selected
select_last_drawable_at(pos) ==
    LET hits == Hits(pos)
    IN  IF hits # {}
        THEN [selected_drawable |->
                  Some(CHOOSE index \in hits : \A other \in hits : index >= other),
              ret |-> TRUE]
        ELSE [selected_drawable |-> selected_drawable, ret |-> FALSE]

\* fault seeded into select_drawable_at: a miss clears the selection
select_or_clear_drawable_at(pos) ==
    LET hits == Hits(pos)
    IN  IF hits # {}
        THEN [selected_drawable |->
                  Some(CHOOSE index \in hits : \A other \in hits : index <= other),
              ret |-> TRUE]
        ELSE [selected_drawable |-> None, ret |-> FALSE]

\* select_drawable_at(pos): the selection it leaves and the value it returns.
\* The scan returns at the first index whose drawable contains pos.
\* fault seeded into select_drawable_at: the index stored counts from one
select_drawable_at_from_one(pos) ==
    LET hits == Hits(pos)
    IN  IF hits # {}
        THEN [selected_drawable |->
                  Some(1 + CHOOSE index \in hits : \A other \in hits : index <= other),
              ret |-> TRUE]
        ELSE [selected_drawable |-> selected_drawable, ret |-> FALSE]

select_drawable_at(pos) ==
    LET hits == Hits(pos)
    IN  IF hits # {}
        THEN [selected_drawable |->
                  Some(CHOOSE index \in hits : \A other \in hits : index <= other),
              ret |-> TRUE]
        ELSE [selected_drawable |-> selected_drawable, ret |-> FALSE]

LineProps(line) ==
    [props |-> "Line", start |-> line.start, end |-> line.end, angle |-> line.angle,
     len |-> line.len, stroke_color |-> line.stroke_color,
     stroke_width |-> line.stroke_width, fill |-> line.fill]

CircleProps(circle) ==
    [props |-> "Circle", center |-> circle.center, radius |-> circle.radius,
     stroke_color |-> circle.stroke_color, stroke_width |-> circle.stroke_width,
     fill |-> circle.fill]

\* fault seeded into the Rect arm: the angle the rect was built with is
\* reported
RectPropsInitialAngle(rect) ==
    [props |-> "Rect", start |-> rect.start, end |-> Rect2_end(rect), angle |-> 0,
     stroke_color |-> rect.stroke_color, stroke_width |-> rect.stroke_width,
     fill |-> rect.fill]

RectProps(rect) ==
    [props |-> "Rect", start |-> rect.start, end |-> Rect2_end(rect), angle |-> rect.angle,
     stroke_color |-> rect.stroke_color, stroke_width |-> rect.stroke_width,
     fill |-> rect.fill]

\* Result<Props, ()>: [ok |-> TRUE, value |-> props] or [ok |-> FALSE]
get_selected_drawable_properties ==
    IF selected_drawable = None THEN [ok |-> FALSE]
    ELSE LET d == drawables[selected_drawable[1] + 1]
         IN  CASE d.type = "Line" -> [ok |-> TRUE, value |-> LineProps(d)]
               [] d.type = "Circle" -> [ok |-> TRUE, value |-> CircleProps(d)]
               [] d.type = "Rect2" -> [ok |-> TRUE, value |-> RectProps(d)]
               [] OTHER -> [ok |-> FALSE]

\* the *_selected_drawable methods: the drawables they leave and the value
\* they return
translate_selected_drawable(offset) ==
    IF selected_drawable # None
    THEN [drawables |->
              [drawables EXCEPT ![selected_drawable[1] + 1] = translate(@, offset)],
          ret |-> TRUE]
    ELSE [drawables |-> drawables, ret |-> FALSE]

\* fault seeded into rotate_selected_drawable: the first drawable is rotated
\* whichever is selected
rotate_first_drawable(angle) ==
    IF selected_drawable # None
    THEN [drawables |-> [drawables EXCEPT ![1] = rotate(@, angle)], ret |-> TRUE]
    ELSE [drawables |-> drawables, ret |-> FALSE]

rotate_selected_drawable(angle) ==
    IF selected_drawable # None
    THEN [drawables |->
              [drawables EXCEPT ![selected_drawable[1] + 1] = rotate(@, angle)],
          ret |-> TRUE]
    ELSE [drawables |-> drawables, ret |-> FALSE]

\* fault seeded into scale_selected_drawable: with nothing selected the first
\* drawable is scaled
scale_selected_or_first_drawable(c) ==
    IF selected_drawable # None
    THEN [drawables |->
              [drawables EXCEPT ![selected_drawable[1] + 1] = scale(@, c)],
          ret |-> TRUE]
    ELSE IF drawables # <<>>
    THEN [drawables |-> [drawables EXCEPT ![1] = scale(@, c)], ret |-> FALSE]
    ELSE [drawables |-> drawables, ret |-> FALSE]

scale_selected_drawable(c) ==
    IF selected_drawable # None
    THEN [drawables |->
              [drawables EXCEPT ![selected_drawable[1] + 1] = scale(@, c)],
          ret |-> TRUE]
    ELSE [drawables |-> drawables, ret |-> FALSE]

(***************************************************************************)
(* The canvas driven by client code: one action per public method.         *)
(***************************************************************************)
Init ==
    /\ \E size \in CanvasSizes : Canvas_new(size[1], size[2])
    /\ last = [op |-> "new"]
    /\ shape = None
    /\ shapeLast = [op |-> "none"]
    /\ file = None
    /\ calls = 0
    /\ vec = None
    /\ vecLast = [op |-> "none"]

AddLine ==
    /\ Len(drawables) < MaxDrawables
    /\ \E g \in LineArgs, s \in LineStyles :
          /\ add_line(g[1], g[2], s[1], s[2], s[3])
          /\ last' = [op |-> "add_line", style |-> s]
    /\ UNCHANGED <<shape, shapeLast, file, calls, vecVars>>

AddCircle ==
    /\ Len(drawables) < MaxDrawables
    /\ \E g \in CircleArgs, s \in CircleStyles :
          /\ add_circle(g[1], g[2], s[1], s[2], s[3])
          /\ last' = [op |-> "add_circle", style |-> s]
    /\ UNCHANGED <<shape, shapeLast, file, calls, vecVars>>

AddRect ==
    /\ Len(drawables) < MaxDrawables
    /\ \E g \in RectArgs, s \in RectStyles :
          /\ add_rect(g[1], g[2], s[1], s[2], s[3])
          /\ last' = [op |-> "add_rect", style |-> s]
    /\ UNCHANGED <<shape, shapeLast, file, calls, vecVars>>

SelectDrawableAt ==
    /\ \E pos \in SelectArgs :
          LET r == select_drawable_at(pos)
          IN  /\ selected_drawable' = r.selected_drawable
              /\ last' = [op |-> "select_drawable_at", pos |-> pos, ret |-> r.ret]
    /\ UNCHANGED <<drawables, width, height, shape, shapeLast, file, calls, vecVars>>

GetSelectedDrawableProperties ==
    /\ last' = [op |-> "get_selected_drawable_properties",
                result |-> get_selected_drawable_properties]
    /\ UNCHANGED <<canvasVars, shape, shapeLast, file, calls, vecVars>>

TranslateSelectedDrawable ==
    /\ calls < MaxCalls
    /\ \E offset \in TranslateArgs :
          LET r == translate_selected_drawable(offset)
          IN  /\ drawables' = r.drawables
              /\ last' = [op |-> "translate_selected_drawable", offset |-> offset,
                          ret |-> r.ret]
    /\ calls' = calls + 1
    /\ UNCHANGED <<width, height, selected_drawable, shape, shapeLast, file, vecVars>>

RotateSelectedDrawable ==
    /\ calls < MaxCalls
    /\ \E angle \in RotateArgs :
          LET r == rotate_selected_drawable(angle)
          IN  /\ drawables' = r.drawables
              /\ last' = [op |-> "rotate_selected_drawable", angle |-> angle,
                          ret |-> r.ret]
    /\ calls' = calls + 1
    /\ UNCHANGED <<width, height, selected_drawable, shape, shapeLast, file, vecVars>>

ScaleSelectedDrawable ==
    /\ calls < MaxCalls
    /\ \E c \in ScaleArgs :
          LET r == scale_selected_drawable(c)
          IN  /\ drawables' = r.drawables
              /\ last' = [op |-> "scale_selected_drawable", c |-> c, ret |-> r.ret]
    /\ calls' = calls + 1
    /\ UNCHANGED <<width, height, selected_drawable, shape, shapeLast, file, vecVars>>

Next ==
    \/ AddLine
    \/ AddCircle
    \/ AddRect
    \/ SelectDrawableAt
    \/ GetSelectedDrawableProperties
    \/ TranslateSelectedDrawable
    \/ RotateSelectedDrawable
    \/ ScaleSelectedDrawable

Spec == Init /\ [][Next]_vars

(***************************************************************************)
(* Properties of the canvas, checked under Spec.                           *)
(***************************************************************************)
AddCalls == {"add_line", "add_circle", "add_rect"}

TransformCalls ==
    {"translate_selected_drawable", "rotate_selected_drawable", "scale_selected_drawable"}

\* C1: whenever at least one drawable contains p, select_drawable_at(p) returns
\* true and the selection is the smallest index whose drawable contains p.
C1_SelectsFirstContaining ==
    (last.op = "select_drawable_at" /\ \E i \in 1..Len(drawables) : contains(drawables[i], last.pos))
        => /\ last.ret = TRUE
           /\ selected_drawable # None
           /\ selected_drawable[1] \in 0..(Len(drawables) - 1)
           /\ contains(drawables[selected_drawable[1] + 1], last.pos)
           /\ \A i \in 1..selected_drawable[1] : ~contains(drawables[i], last.pos)

\* C1 witness: a select at a point that two drawables contain
C1_Witness ==
    /\ last.op = "select_drawable_at"
    /\ last.ret = TRUE
    /\ Cardinality({i \in 1..Len(drawables) : contains(drawables[i], last.pos)}) >= 2

\* C2: when no drawable contains p, select_drawable_at(p) returns false and
\* leaves the selection and the drawables as they were.
C2_MissKeepsSelection ==
    [][(last'.op = "select_drawable_at"
        /\ \A i \in 1..Len(drawables) : ~contains(drawables[i], last'.pos))
          => /\ last'.ret = FALSE
             /\ selected_drawable' = selected_drawable
             /\ drawables' = drawables]_vars

\* C2 witness: a select that missed while a drawable was selected
C2_Witness ==
    /\ last.op = "select_drawable_at"
    /\ last.ret = FALSE
    /\ selected_drawable # None

\* C3: with no selection, translate_/rotate_/scale_selected_drawable return
\* false and leave the whole canvas unchanged.
C3_NoSelectionNoChange ==
    [][(selected_drawable = None /\ calls' = calls + 1 /\ last'.op \in TransformCalls)
          => /\ last'.ret = FALSE
             /\ drawables' = drawables
             /\ width' = width
             /\ height' = height
             /\ selected_drawable' = None]_vars

\* C3 witness: a scale call refused on a canvas that holds drawables
C3_Witness ==
    /\ last.op = "scale_selected_drawable"
    /\ last.c = 2
    /\ last.ret = FALSE
    /\ Len(drawables) > 0

\* the Draw method the *_selected_drawable call dispatches to, applied to d
Dispatched(call, d) ==
    CASE call.op = "translate_selected_drawable" -> translate(d, call.offset)
      [] call.op = "rotate_selected_drawable" -> rotate(d, call.angle)
      [] call.op = "scale_selected_drawable" -> scale(d, call.c)

\* C4: with drawable i selected, a *_selected_drawable call returns true,
\* applies the matching Draw method to drawable i and changes nothing else.
C4_TransformsSelectedOnly ==
    [][(selected_drawable # None /\ calls' = calls + 1 /\ last'.op \in TransformCalls)
          => /\ last'.ret = TRUE
             /\ Len(drawables') = Len(drawables)
             /\ selected_drawable' = selected_drawable
             /\ width' = width
             /\ height' = height
             /\ \A j \in 1..Len(drawables) :
                   drawables'[j] = IF j = selected_drawable[1] + 1
                                   THEN Dispatched(last', drawables[j])
                                   ELSE drawables[j]]_vars

\* C4 witness: a rotation applied to the second of two drawables
C4_Witness ==
    /\ last.op = "rotate_selected_drawable"
    /\ last.ret = TRUE
    /\ Len(drawables) >= 2
    /\ selected_drawable = Some(1)

\* the Props variant that reports a drawable of the given type
PropsTag(type) ==
    CASE type = "Line" -> "Line" [] type = "Circle" -> "Circle" [] type = "Rect2" -> "Rect"

\* C5: get_selected_drawable_properties fails exactly when nothing is
\* selected; otherwise it returns the Props of the selected drawable's variant
\* with that drawable's current field values; it never changes the canvas.
C5_PropsOfSelected ==
    [][(last'.op = "get_selected_drawable_properties")
          => /\ UNCHANGED canvasVars
             /\ last'.result.ok = (selected_drawable # None)
             /\ selected_drawable # None =>
                   LET d == drawables[selected_drawable[1] + 1]
                       p == last'.result.value
                   IN  /\ p.props = PropsTag(d.type)
                       /\ p.stroke_color = d.stroke_color
                       /\ p.stroke_width = d.stroke_width
                       /\ p.fill = d.fill
                       /\ d.type = "Line" =>
                             /\ p.start = d.start
                             /\ p.end = d.end
                             /\ p.angle = d.angle
                             /\ p.len = d.len
                       /\ d.type = "Circle" =>
                             /\ p.center = d.center
                             /\ p.radius = d.radius
                       /\ d.type = "Rect2" =>
                             /\ p.start = d.start
                             /\ p.end.x = FAdd(d.start.x, d.diagonal.x)
                             /\ p.end.y = FAdd(d.start.y, d.diagonal.y)
                             /\ p.angle = d.angle]_vars

\* C5 witness: the properties of a rect read after it was rotated
C5_Witness ==
    /\ last.op = "get_selected_drawable_properties"
    /\ last.result.ok
    /\ last.result.value.props = "Rect"
    /\ last.result.value.angle # 0

\* C6: a new canvas has no drawable and no selection; each add_* appends
\* exactly one drawable and leaves the others and the selection alone; no
\* call removes or reorders drawables.
C6_AppendOnly ==
    /\ drawables = <<>> /\ selected_drawable = None
    /\ [][IF last'.op \in AddCalls
          THEN /\ Len(drawables') = Len(drawables) + 1
               /\ \A j \in 1..Len(drawables) : drawables'[j] = drawables[j]
               /\ PropsTag(drawables'[Len(drawables')].type)
                     = CASE last'.op = "add_line" -> "Line"
                         [] last'.op = "add_circle" -> "Circle"
                         [] last'.op = "add_rect" -> "Rect"
               /\ selected_drawable' = selected_drawable
          ELSE /\ Len(drawables') = Len(drawables)
               /\ \A j \in 1..Len(drawables) :
                     /\ drawables'[j].type = drawables[j].type
                     /\ selected_drawable # Some(j - 1) => drawables'[j] = drawables[j]]_vars

\* C6 witness: a circle appended behind a selected drawable
C6_Witness ==
    /\ last.op = "add_circle"
    /\ Len(drawables) = 2
    /\ selected_drawable = Some(0)
    /\ drawables[2].type = "Circle"

\* the style a drawable holds: stroke colour, stroke width, fill
StyleOf(d) == <<d.stroke_color, d.stroke_width, d.fill>>

\* the option when it is given, else the default
GivenOr(opt, default) == IF Len(opt) = 1 THEN opt[1] ELSE default

\* C18: a drawable added with style options omitted gets stroke BLUE, width 5
\* and fill WHITE when it is a line, and stroke BLACK, width 12 and fill
\* WHITE when it is a circle or a rect; an option that is given is stored as
\* given; no call changes the style of a drawable, and the Props snapshot
\* reports it.
C18_StyleDefaults ==
    [][/\ last'.op = "add_line" =>
             StyleOf(drawables'[Len(drawables')])
                 = <<GivenOr(last'.style[1], BLUE), GivenOr(last'.style[2], 5),
                     GivenOr(last'.style[3], WHITE)>>
       /\ last'.op \in {"add_circle", "add_rect"} =>
             StyleOf(drawables'[Len(drawables')])
                 = <<GivenOr(last'.style[1], BLACK), GivenOr(last'.style[2], 12),
                     GivenOr(last'.style[3], WHITE)>>
       /\ \A j \in 1..Len(drawables) : StyleOf(drawables'[j]) = StyleOf(drawables[j])
       /\ (last'.op = "get_selected_drawable_properties" /\ last'.result.ok) =>
             StyleOf(last'.result.value) = StyleOf(drawables[selected_drawable[1] + 1])]_vars

\* C18 witness: the snapshot of a circle that was added without style options
\* and then transformed
C18_Witness ==
    /\ last.op = "get_selected_drawable_properties"
    /\ last.result.ok
    /\ last.result.value.props = "Circle"
    /\ StyleOf(last.result.value) = <<BLACK, 12, WHITE>>
    /\ calls > 0

\* C21: with a drawable selected, whatever calls were made before,
\* scale_selected_drawable(0) returns true and leaves every field of every
\* drawable, cached fields included, as it was.
C21_ZeroScaleNoOp ==
    [][(last'.op = "scale_selected_drawable" /\ last'.c = 0 /\ selected_drawable # None)
          => /\ last'.ret = TRUE
             /\ drawables' = drawables]_vars

\* C25: the selection is always absent or the index of a drawable of the
\* canvas: whatever calls were made, selected_drawable is None or less than
\* the number of drawables.
C25_SelectionInRange ==
    selected_drawable = None \/ selected_drawable[1] \in 0..(Len(drawables) - 1)

\* the last drawable of a full canvas is selected and has been transformed
C25_Witness ==
    /\ Len(drawables) = MaxDrawables
    /\ selected_drawable = Some(MaxDrawables - 1)
    /\ calls = MaxCalls

(***************************************************************************)
(* A drawable driven directly by client code through the Draw trait.       *)
(***************************************************************************)
MaxShapeCalls == 3

ShapePoints == {Vector2_new(0, 0), Vector2_new(1, 0), Vector2_new(1, 2), Vector2_new(-1, 1)}

ShapeRadii == {1, 5}

ShapeStyles == {NoStyle, GivenStyle}

NewShapes ==
    {Line2D_new(a, b, s[1], s[2], s[3]) : a \in ShapePoints, b \in ShapePoints, s \in ShapeStyles}
    \cup {Circle_new(a, r, s[1], s[2], s[3]) : a \in ShapePoints, r \in ShapeRadii, s \in ShapeStyles}
    \cup {Rect2_new(a, b, s[1], s[2], s[3]) : a \in ShapePoints, b \in ShapePoints, s \in ShapeStyles}
    \cup {Text_new(<<"hi">>, a, None, None) : a \in ShapePoints}

ShapeTranslateArgs == {Vector2_new(1, 0), Vector2_new(-1, 2)}

ShapeRotateArgs == {1, 2, -1}

ShapeScaleArgs == {0, 2, -1}

ShapeInit ==
    /\ Canvas_new(1920, 1080)
    /\ last = [op |-> "new"]
    /\ \E d \in NewShapes : shape = Some(d)
    /\ shapeLast = [op |-> "new"]
    /\ file = None
    /\ calls = 0
    /\ vec = None
    /\ vecLast = [op |-> "none"]

ShapeTranslate ==
    /\ calls < MaxShapeCalls
    /\ \E offset \in ShapeTranslateArgs :
          /\ shape' = Some(translate(shape[1], offset))
          /\ shapeLast' = [op |-> "translate", offset |-> offset]
    /\ calls' = calls + 1
    /\ UNCHANGED <<canvasVars, last, file, vecVars>>

ShapeRotate ==
    /\ calls < MaxShapeCalls
    /\ \E angle \in ShapeRotateArgs :
          /\ shape' = Some(rotate(shape[1], angle))
          /\ shapeLast' = [op |-> "rotate", angle |-> angle]
    /\ calls' = calls + 1
    /\ UNCHANGED <<canvasVars, last, file, vecVars>>

ShapeScale ==
    /\ calls < MaxShapeCalls
    /\ \E c \in ShapeScaleArgs :
          /\ shape' = Some(scale(shape[1], c))
          /\ shapeLast' = [op |-> "scale", c |-> c]
    /\ calls' = calls + 1
    /\ UNCHANGED <<canvasVars, last, file, vecVars>>

\* contains(point): &self, the drawable stays
ShapeContains ==
    /\ \E point \in ShapePoints :
          shapeLast' = [op |-> "contains", point |-> point, ret |-> contains(shape[1], point)]
    /\ UNCHANGED <<canvasVars, last, shape, file, calls, vecVars>>

ShapeNext ==
    \/ ShapeTranslate
    \/ ShapeRotate
    \/ ShapeScale
    \/ ShapeContains

SpecShape == ShapeInit /\ [][ShapeNext]_vars

(***************************************************************************)
(* Properties of single drawables, checked under SpecShape.                *)
(***************************************************************************)
\* construction and the calls that change a drawable
DrawCalls == {"new", "translate", "rotate", "scale"}

\* the length of b - a, from the coordinates
Distance(a, b) ==
    IF a.x = NaN \/ a.y = NaN \/ b.x = NaN \/ b.y = NaN THEN NaNRoot
    ELSE [neg |-> FALSE,
          sq |-> (b.x - a.x) * (b.x - a.x) + (b.y - a.y) * (b.y - a.y)]

\* the angle lies along the line through a and b (it is the angle of b - a or
\* of a - b); any angle does when a = b
AlongLine(angle, a, b) ==
    \/ a.x = b.x /\ a.y = b.y
    \/ /\ angle # NaNAngle
       /\ a.x # NaN /\ a.y # NaN /\ b.x # NaN /\ b.y # NaN
       /\ LET u == QuarterTurns(angle.dx, angle.dy, angle.k)
          IN  u[1] * (b.y - a.y) - u[2] * (b.x - a.x) = 0

\* C9: for every Line, after construction and any sequence of translate,
\* rotate and scale calls, len() is the length of end - start and angle() is
\* the angle of end - start (taken up to a half turn, which favours the code).
C9_LineLenAngleMatch ==
    (shapeLast.op \in DrawCalls /\ shape # None /\ shape[1].type = "Line")
        => /\ shape[1].len = Distance(shape[1].start, shape[1].end)
           /\ AlongLine(shape[1].angle, shape[1].start, shape[1].end)

\* C10: for every Circle, after construction and any sequence of translate,
\* rotate and scale calls, circumference() is 2 * pi * radius() and area() is
\* pi * radius()^2 (both held in multiples of pi).
C10_CircleDerivedMatch ==
    (shapeLast.op \in DrawCalls /\ shape # None /\ shape[1].type = "Circle")
        => /\ shape[1].circumference = 2 * shape[1].radius
           /\ shape[1].area = shape[1].radius * shape[1].radius

\* C15: for every Circle and point p, contains(p) is true exactly when the
\* distance from p to the center is <= radius, the boundary included.
C15_CircleContains ==
    (shapeLast.op = "contains" /\ shape[1].type = "Circle")
        => LET dx == shapeLast.point.x - shape[1].center.x
               dy == shapeLast.point.y - shape[1].center.y
               r == shape[1].radius
           IN  shapeLast.ret = (r >= 0 /\ dx * dx + dy * dy <= r * r)

\* C15 witness: a point on the boundary of a circle that was moved and
\* scaled is contained
C15_Witness ==
    /\ shapeLast.op = "contains"
    /\ shape[1].type = "Circle"
    /\ shapeLast.ret = TRUE
    /\ calls >= 2
    /\ shape[1].radius = 2
    /\ shape[1].center.x # 0
    /\ (shapeLast.point.x - shape[1].center.x) * (shapeLast.point.x - shape[1].center.x)
         + (shapeLast.point.y - shape[1].center.y) * (shapeLast.point.y - shape[1].center.y) = 4

Min(a, b) == IF a <= b THEN a ELSE b

Max(a, b) == IF a >= b THEN a ELSE b

\* p lies in the closed axis-aligned rectangle spanned by a and b
InBox(p, a, b) ==
    /\ a.x # NaN /\ a.y # NaN /\ b.x # NaN /\ b.y # NaN
    /\ Min(a.x, b.x) <= p.x /\ p.x <= Max(a.x, b.x)
    /\ Min(a.y, b.y) <= p.y /\ p.y <= Max(a.y, b.y)

\* C16: for an unrotated Rect2 with corners start and end, contains(p) is
\* true for every p in the closed rectangle spanned by start and end and false
\* for every p outside it.
C16_RectContains ==
    (shapeLast.op = "contains" /\ shape[1].type = "Rect2" /\ shape[1].angle = 0)
        => shapeLast.ret = InBox(shapeLast.point, shape[1].start, Rect2_end(shape[1]))

\* p lies on the closed segment from a to b
OnSegment(p, a, b) ==
    /\ InBox(p, a, b)
    /\ (p.x - a.x) * (b.y - a.y) - (p.y - a.y) * (b.x - a.x) = 0

\* C17: for every Line and point p, contains(p) is true exactly for the
\* points of the closed segment from start to end.
C17_LineContains ==
    (shapeLast.op = "contains" /\ shape[1].type = "Line")
        => shapeLast.ret = OnSegment(shapeLast.point, shape[1].start, shape[1].end)

\* C19: for every Line, whatever its start, rotate(t) leaves start alone,
\* sets end to start plus (end - start) turned by t, adds t to angle() and
\* keeps the length of the line.
C19_LineRotateAboutStart ==
    [][(shapeLast'.op = "rotate" /\ shape[1].type = "Line"
        /\ shape[1].end.x # NaN /\ shape[1].end.y # NaN)
          => LET line == shape[1]
                 turned == QuarterTurns(line.end.x - line.start.x,
                                        line.end.y - line.start.y, shapeLast'.angle)
             IN  /\ shape'[1].start = line.start
                 /\ shape'[1].end.x = line.start.x + turned[1]
                 /\ shape'[1].end.y = line.start.y + turned[2]
                 /\ shape'[1].angle = AngleAdd(line.angle, shapeLast'.angle)
                 /\ Distance(shape'[1].start, shape'[1].end) = Distance(line.start, line.end)]_vars

\* C20: for every Line and every c other than 0, scale(c) leaves start
\* alone, sets end to start + c * (end - start) and sets len() to the length
\* of the new end - start.
C20_LineScale ==
    [][(shapeLast'.op = "scale" /\ shapeLast'.c # 0 /\ shape[1].type = "Line"
        /\ shape[1].end.x # NaN /\ shape[1].end.y # NaN)
          => LET line == shape[1]
                 c == shapeLast'.c
             IN  /\ shape'[1].start = line.start
                 /\ shape'[1].end.x = line.start.x + c * (line.end.x - line.start.x)
                 /\ shape'[1].end.y = line.start.y + c * (line.end.y - line.start.y)
                 /\ shape'[1].len = Distance(shape'[1].start, shape'[1].end)]_vars

\* the point p moved by o, from the coordinates
Moved(p, q, o) == q.x = FAdd(p.x, o.x) /\ q.y = FAdd(p.y, o.y)

\* C22: translate(o) moves every position of a Line, Circle or Rect2 by o
\* and changes nothing else: start and end of a Line (len and angle stay),
\* the center of a Circle (radius stays), start and end() of a Rect2
\* (diagonal, angle and dimensions() stay); the style fields stay.
C22_TranslateShiftsOnly ==
    [][(shapeLast'.op = "translate" /\ shape[1].type \in {"Line", "Circle", "Rect2"})
          => LET d == shape[1]
                 e == shape'[1]
                 o == shapeLast'.offset
             IN  /\ StyleOf(e) = StyleOf(d)
                 /\ d.type = "Line" =>
                       /\ Moved(d.start, e.start, o)
                       /\ Moved(d.end, e.end, o)
                       /\ [e EXCEPT !.start = d.start, !.end = d.end] = d
                 /\ d.type = "Circle" =>
                       /\ Moved(d.center, e.center, o)
                       /\ [e EXCEPT !.center = d.center] = d
                 /\ d.type = "Rect2" =>
                       /\ Moved(d.start, e.start, o)
                       /\ Moved(Rect2_end(d), Rect2_end(e), o)
                       /\ Rect2_dimensions(e) = Rect2_dimensions(d)
                       /\ [e EXCEPT !.start = d.start] = d]_vars

\* a line whose cached len no longer matched its end points has been moved
C22_Witness ==
    /\ shapeLast.op = "translate"
    /\ shape[1].type = "Line"
    /\ shape[1].len # Distance(shape[1].start, shape[1].end)
    /\ calls = MaxShapeCalls

\* the sides of a rectangle from its diagonal and its angle, from the
\* coordinates
Sides(diagonal, angle) ==
    IF diagonal.x = NaN \/ diagonal.y = NaN THEN <<NaN, NaN>>
    ELSE <<Abs(QuarterTurns(diagonal.x, diagonal.y, -angle)[1]),
           Abs(QuarterTurns(diagonal.x, diagonal.y, -angle)[2])>>

\* C23: for every Rect2, dimensions() is the diagonal turned by -angle with
\* absolute values taken; translate and rotate keep it, scale(c) with c # 0
\* multiplies both components by |c|; rotate and scale keep start; angle()
\* is the sum of the rotate arguments.
C23_RectDimensions ==
    [][(shape'[1].type = "Rect2" /\ shapeLast'.op \in DrawCalls)
          => LET d == shape[1]
                 e == shape'[1]
                 op == shapeLast'.op
             IN  /\ Rect2_dimensions(e) = Sides(e.diagonal, e.angle)
                 /\ op \in {"translate", "rotate"} =>
                       Rect2_dimensions(e) = Rect2_dimensions(d)
                 /\ (op = "scale" /\ shapeLast'.c # 0) =>
                       /\ Rect2_dimensions(e)[1] = FMul(Rect2_dimensions(d)[1], FAbs(shapeLast'.c))
                       /\ Rect2_dimensions(e)[2] = FMul(Rect2_dimensions(d)[2], FAbs(shapeLast'.c))
                 /\ op \in {"rotate", "scale"} => e.start = d.start
                 /\ e.angle = IF op = "rotate" THEN d.angle + shapeLast'.angle ELSE d.angle]_vars

\* C26: hit-testing moves with the drawable: for a Line, Circle or Rect2,
\* contains(p) before translate(o) equals contains(p + o) after it.
C26_ContainsMovesWithShape ==
    [][(shapeLast'.op = "translate" /\ shape[1].type \in {"Line", "Circle", "Rect2"})
          => \A p \in ShapePoints :
                contains(shape'[1], Vector2_add(p, shapeLast'.offset)) = contains(shape[1], p)]_vars

\* a translate has moved a line onto a point it did not contain before
C26_Witness ==
    /\ shapeLast.op = "translate"
    /\ shape[1].type = "Line"
    /\ \E p \in ShapePoints :
          /\ contains(shape[1], Vector2_add(p, shapeLast.offset))
          /\ ~contains(shape[1], p)

(***************************************************************************)
(* Serialisation: a canvas that is exported, a drawable that is            *)
(* serialised.                                                             *)
(***************************************************************************)
\* the drawables the add_* calls of Spec create
AddedShapes ==
    {Line2D_new(g[1], g[2], s[1], s[2], s[3]) : g \in LineArgs, s \in LineStyles}
    \cup {Circle_new(g[1], g[2], s[1], s[2], s[3]) : g \in CircleArgs, s \in CircleStyles}
    \cup {Rect2_new(g[1], g[2], s[1], s[2], s[3]) : g \in RectArgs, s \in RectStyles}

\* the canvases that are exported: empty, one drawable, or two of which one
\* is a circle (a line or a rect has 120 serialisations, a circle has 6)
ExportedCanvases ==
    {<<>>}
    \cup {<<d>> : d \in AddedShapes}
    \cup {<<d, e>> : d \in {x \in AddedShapes : x.type = "Circle"}, e \in AddedShapes}
    \cup {<<d, e>> : d \in AddedShapes, e \in {x \in AddedShapes : x.type = "Circle"}}

ExportedSizes == {<<1920, 1080>>, <<7, 0>>}

\* the drawables that are serialised on their own
SerialisedShapes ==
    {d \in NewShapes : d.type = "Text"}
    \cup {Text_new(<<"a", " ", "b">>, Vector2_new(-1, 1), Some(1), Some(RED)),
          Line2D_new(Vector2_new(0, 0), Vector2_new(1, 2), None, None, None),
          Circle_new(Vector2_new(1, 2), 5, None, None, None),
          Rect2_new(Vector2_new(-1, 1), Vector2_new(1, 2), None, None, None)}

\* std::fs::write succeeds or fails
WriteResults == {[ok |-> TRUE], [ok |-> FALSE, err |-> "io::Error"]}

SvgInit ==
    /\ \/ /\ \E ds \in ExportedCanvases : drawables = ds
          /\ \E size \in ExportedSizes : width = size[1] /\ height = size[2]
          /\ selected_drawable = None
          /\ shape = None
       \/ /\ Canvas_new(1920, 1080)
          /\ \E d \in SerialisedShapes : shape = Some(d)
    /\ last = [op |-> "new"]
    /\ shapeLast = [op |-> "new"]
    /\ file = None
    /\ calls = 0
    /\ vec = None
    /\ vecLast = [op |-> "none"]

\* export(file_path): builds the text, hands it to write, returns write's
\* result.  export and to_svg_tag read their object and leave it alone, so a
\* run makes each call once.
Export ==
    /\ file = None
    /\ \E contents \in export, written \in WriteResults :
          /\ file' = Some([contents |-> contents, result |-> written])
          /\ last' = [op |-> "export", result |-> written]
    /\ UNCHANGED <<canvasVars, shape, shapeLast, calls, vecVars>>

ToSvgTag ==
    /\ shape # None
    /\ shapeLast.op = "new"
    /\ \E text \in SvgTags(shape[1]) : shapeLast' = [op |-> "to_svg_tag", text |-> text]
    /\ UNCHANGED <<canvasVars, last, shape, file, calls, vecVars>>

SvgNext ==
    \/ Export
    \/ ToSvgTag

SpecSvg == SvgInit /\ [][SvgNext]_vars

(***************************************************************************)
(* Properties of the serialisation, checked under SpecSvg.                 *)
(***************************************************************************)
EndsWith(text, suffix) ==
    /\ Len(text) >= Len(suffix)
    /\ SubSeq(text, Len(text) - Len(suffix) + 1, Len(text)) = suffix

StartsWith(text, prefix) ==
    /\ Len(text) >= Len(prefix)
    /\ SubSeq(text, 1, Len(prefix)) = prefix

\* the indices of the ">" that end a "/>" of text
SelfCloses(text) == {i \in 2..Len(text) : text[i - 1] = "/" /\ text[i] = ">"}

\* text cut after each "/>"
Fragments(text) ==
    LET cuts == SelfCloses(text)
        n == Cardinality(cuts)
        cut(k) == IF k = 0 THEN 0
                  ELSE CHOOSE i \in cuts : Cardinality({j \in cuts : j <= i}) = k
    IN  [k \in 1..n |-> SubSeq(text, cut(k - 1) + 1, cut(k))]
            \o (IF cut(n) < Len(text) THEN <<SubSeq(text, cut(n) + 1, Len(text))>> ELSE <<>>)

\* the attribute names of a tag, in the order they appear in it: the tokens
\* between a " " and a "="
Attributes(text) ==
    LET at == {i \in 1..(Len(text) - 2) : text[i] = " " /\ text[i + 2] = "="}
    IN  [k \in 1..Cardinality(at) |->
            text[(CHOOSE i \in at : Cardinality({j \in at : j < i}) = k - 1) + 1]]

\* text is a serialisation of d: to_svg_tag for the attribute order of text,
\* which names each property of d once
Serialises(text, d) ==
    \E order \in {Attributes(text)} :
        /\ Len(order) = Cardinality(DOMAIN get_svg_tag_properties(d))
        /\ {order[i] : i \in 1..Len(order)} = DOMAIN get_svg_tag_properties(d)
        /\ text = to_svg_tag(d, order)

SvgOpen ==
    <<"<", "svg", " ", "width", "=", "\"">> \o IntToString(width)
        \o <<"\"", " ", "height", "=", "\"">> \o IntToString(height) \o <<"\"", ">">>

SvgClose == <<"<", "/", "svg", ">">>

\* C7: export writes '<svg width="W" height="H">', then exactly one
\* serialised fragment per drawable in insertion order, then '</svg>'; it does
\* not change the canvas and returns the result of the write.
C7_ExportText ==
    [][(last'.op = "export")
          => /\ UNCHANGED canvasVars
             /\ file' # None
             /\ last'.result = file'[1].result
             /\ \E contents \in {file'[1].contents} :
                   /\ Len(contents) >= Len(SvgOpen) + Len(SvgClose)
                   /\ StartsWith(contents, SvgOpen)
                   /\ EndsWith(contents, SvgClose)
                   /\ \E frags \in {Fragments(SubSeq(contents, Len(SvgOpen) + 1,
                                                      Len(contents) - Len(SvgClose)))} :
                         /\ Len(frags) = Len(drawables)
                         /\ \A i \in 1..Len(frags) :
                               /\ frags[i][1] = "<"
                               /\ frags[i][2] = get_svg_tag_name(drawables[i])
                               /\ Serialises(frags[i], drawables[i])]_vars

\* C7 witness: a canvas holding a circle and then a line was exported, and
\* the write succeeded
C7_Witness ==
    /\ last.op = "export"
    /\ last.result.ok
    /\ Len(drawables) = 2
    /\ drawables[1].type = "Circle"
    /\ drawables[2].type = "Line"
    /\ file # None

\* C8: to_svg_tag builds "<name", the properties, and then "/>" when there is
\* no inner content, or ">", the inner content and the closing tag "</name>"
\* when there is (white space around the inner content allowed).
C8_TagComposition ==
    (shapeLast.op = "to_svg_tag")
        => LET text == shapeLast.text
               name == get_svg_tag_name(shape[1])
               inner == get_svg_inner_content(shape[1])
           IN  /\ StartsWith(text, <<"<", name>>)
               /\ IF inner = None
                  THEN EndsWith(text, <<"/", ">">>)
                  ELSE \/ EndsWith(text, <<">">> \o inner[1] \o <<"<", "/", name, ">">>)
                       \/ EndsWith(text, <<">", " ">> \o inner[1] \o <<" ", "<", "/", name, ">">>)

\* the attribute order of the documented layout of each tag
AttributeLayout(d) ==
    CASE d.type = "Line" -> <<"x1", "y1", "x2", "y2", "style">>
      [] d.type = "Circle" -> <<"cx", "cy", "r">>
      [] d.type = "Rect2" -> <<"x", "y", "width", "height", "style">>

\* C24: serialising a drawable gives one text, the same on every call, with
\* the attributes in the documented order: x1, y1, x2, y2, style for a line,
\* cx, cy, r for a circle, x, y, width, height, style for a rect.
C24_AttributeOrder ==
    (shapeLast.op = "to_svg_tag" /\ shape[1].type \in {"Line", "Circle", "Rect2"})
        => /\ Attributes(shapeLast.text) = AttributeLayout(shape[1])
           /\ shapeLast.text = to_svg_tag(shape[1], AttributeLayout(shape[1]))

\* sub occurs in text
Occurs(sub, text) ==
    \E i \in 1..(Len(text) - Len(sub) + 1) : SubSeq(text, i, i + Len(sub) - 1) = sub

\* C27: the colour constants have the values of their names, each with
\* alpha 1, so the tag of a line or rect built without a style has the fill
\* rgba(255, 255, 255, 1) (white) and the tag of such a rect has the stroke
\* rgba(0, 0, 0, 1) (black).
C27_NamedColors ==
    (shapeLast.op = "to_svg_tag" /\ shape[1].type \in {"Line", "Rect2"})
        => /\ BLACK = <<0, 0, 0, 1>>
           /\ WHITE = <<255, 255, 255, 1>>
           /\ RED = <<255, 0, 0, 1>>
           /\ GREEN = <<0, 255, 0, 1>>
           /\ BLUE = <<0, 0, 255, 1>>
           /\ Occurs(<<"fill:">> \o Color_to_string(<<255, 255, 255, 1>>), shapeLast.text)
           /\ shape[1].type = "Rect2" =>
                 Occurs(<<";stroke:">> \o Color_to_string(<<0, 0, 0, 1>>), shapeLast.text)

(***************************************************************************)
(* A Vector2 driven by client code: one action per public operation.       *)
(***************************************************************************)
MaxVecCalls == 2

VecCoords == {-1, 0, 1, 2}

\* the offsets and right-hand sides the calls are made with
VecArgs == {Vector2_new(1, 0), Vector2_new(-1, 2)}

VecRotateArgs == {1, -1}

VecScaleArgs == {0, 2, -1}

VecInit ==
    /\ Canvas_new(1920, 1080)
    /\ last = [op |-> "new"]
    /\ shape = None
    /\ shapeLast = [op |-> "none"]
    /\ file = None
    /\ calls = 0
    /\ \E x \in VecCoords, y \in VecCoords : vec = Some(Vector2_new(x, y))
    /\ vecLast = [op |-> "new"]

VecTranslate ==
    /\ calls < MaxVecCalls
    /\ \E offset \in VecArgs :
          /\ vec' = Some(Vector2_translate(vec[1], offset))
          /\ vecLast' = [op |-> "translate", rhs |-> offset]
    /\ calls' = calls + 1
    /\ UNCHANGED <<canvasVars, last, shape, shapeLast, file>>

\* vecLast keeps, for a run of rotate calls, the vector the run started from
\* (origin) and the sum of the angles of the run (turned)
VecRotate ==
    /\ calls < MaxVecCalls
    /\ \E angle \in VecRotateArgs :
          /\ vec' = Some(Vector2_rotate(vec[1], angle))
          /\ vecLast' = [op |-> "rotate", angle |-> angle,
                         origin |-> IF vecLast.op = "rotate" THEN vecLast.origin ELSE vec[1],
                         turned |-> IF vecLast.op = "rotate" THEN vecLast.turned + angle
                                    ELSE angle]
    /\ calls' = calls + 1
    /\ UNCHANGED <<canvasVars, last, shape, shapeLast, file>>

VecScale ==
    /\ calls < MaxVecCalls
    /\ \E c \in VecScaleArgs :
          /\ vec' = Some(Vector2_scale(vec[1], c))
          /\ vecLast' = [op |-> "scale", c |-> c, before |-> vec[1]]
    /\ calls' = calls + 1
    /\ UNCHANGED <<canvasVars, last, shape, shapeLast, file>>

VecAddAssign ==
    /\ calls < MaxVecCalls
    /\ \E rhs \in VecArgs :
          /\ vec' = Some(Vector2_add_assign(vec[1], rhs))
          /\ vecLast' = [op |-> "add_assign", rhs |-> rhs]
    /\ calls' = calls + 1
    /\ UNCHANGED <<canvasVars, last, shape, shapeLast, file>>

VecSubAssign ==
    /\ calls < MaxVecCalls
    /\ \E rhs \in VecArgs :
          /\ vec' = Some(Vector2_sub_assign(vec[1], rhs))
          /\ vecLast' = [op |-> "sub_assign", rhs |-> rhs]
    /\ calls' = calls + 1
    /\ UNCHANGED <<canvasVars, last, shape, shapeLast, file>>

\* vec + rhs and vec - rhs: a new vector (out); vec is Copy and stays
VecAdd ==
    /\ calls < MaxVecCalls
    /\ \E rhs \in VecArgs :
          vecLast' = [op |-> "add", rhs |-> rhs, out |-> Vector2_add(vec[1], rhs)]
    /\ calls' = calls + 1
    /\ UNCHANGED <<canvasVars, last, shape, shapeLast, file, vec>>

VecSub ==
    /\ calls < MaxVecCalls
    /\ \E rhs \in VecArgs :
          vecLast' = [op |-> "sub", rhs |-> rhs, out |-> Vector2_sub(vec[1], rhs)]
    /\ calls' = calls + 1
    /\ UNCHANGED <<canvasVars, last, shape, shapeLast, file, vec>>

\* vec.dot(rhs) and rhs.dot(vec); &self and a Copy argument
VecDot ==
    /\ calls < MaxVecCalls
    /\ \E rhs \in VecArgs :
          vecLast' = [op |-> "dot", rhs |-> rhs,
                      num |-> Vector2_dot(vec[1], rhs), swapped |-> Vector2_dot(rhs, vec[1])]
    /\ calls' = calls + 1
    /\ UNCHANGED <<canvasVars, last, shape, shapeLast, file, vec>>

VecCross ==
    /\ calls < MaxVecCalls
    /\ \E rhs \in VecArgs :
          vecLast' = [op |-> "cross", rhs |-> rhs,
                      num |-> Vector2_cross(vec[1], rhs), swapped |-> Vector2_cross(rhs, vec[1])]
    /\ calls' = calls + 1
    /\ UNCHANGED <<canvasVars, last, shape, shapeLast, file, vec>>

\* vec == rhs and rhs == vec
VecEq ==
    /\ calls < MaxVecCalls
    /\ \E rhs \in VecArgs :
          vecLast' = [op |-> "eq", rhs |-> rhs,
                      ret |-> Vector2_eq(vec[1], rhs), mirrored |-> Vector2_eq(rhs, vec[1])]
    /\ calls' = calls + 1
    /\ UNCHANGED <<canvasVars, last, shape, shapeLast, file, vec>>

VecNext ==
    \/ VecTranslate
    \/ VecRotate
    \/ VecScale
    \/ VecAddAssign
    \/ VecSubAssign
    \/ VecAdd
    \/ VecSub
    \/ VecDot
    \/ VecCross
    \/ VecEq

SpecVec == VecInit /\ [][VecNext]_vars

(***************************************************************************)
(* Properties of Vector2, checked under SpecVec.                           *)
(***************************************************************************)
\* the two-argument arctangent of (y, x), in (-pi, pi]; atan2(0, 0) is 0
Atan2(y, x) ==
    IF x = NaN \/ y = NaN THEN NaNAngle
    ELSE IF x = 0 /\ y = 0 THEN [dx |-> 1, dy |-> 0, k |-> 0]
    ELSE LET g == Gcd(Abs(x), Abs(y))
             a == x \div g
             b == y \div g
         IN  IF a > 0 /\ b >= 0 THEN [dx |-> a, dy |-> b, k |-> 0]
             ELSE IF a <= 0 /\ b > 0 THEN [dx |-> b, dy |-> -a, k |-> 1]
             ELSE IF a < 0 /\ b = 0 THEN [dx |-> -a, dy |-> 0, k |-> 2]
             ELSE IF a < 0 /\ b < 0 THEN [dx |-> -a, dy |-> -b, k |-> -2]
             ELSE [dx |-> -b, dy |-> a, k |-> -1]

\* the angles a and b differ by whole turns
SameDirection(a, b) == a.dx = b.dx /\ a.dy = b.dy /\ (a.k - b.k) % 4 = 0

\* the cached len and arg of v are those of its x and y
CachedConsistent(v) ==
    /\ v.len = Sqrt(FAdd(FMul(v.x, v.x), FMul(v.y, v.y)))
    /\ SameDirection(v.arg, Atan2(v.y, v.x))

\* C11: for every Vector2, after new and after every mutating operation
\* (translate, rotate, scale, +=, -=), and for every result of + and -, the
\* cached len is sqrt(x^2 + y^2) and the cached arg is atan2(y, x) (taken up
\* to whole turns, which favours the code).
C11_VectorCachedConsistent ==
    (vec # None)
        => /\ CachedConsistent(vec[1])
           /\ vecLast.op \in {"add", "sub"} => CachedConsistent(vecLast.out)


\* C12: a == b holds exactly when |a.x - b.x| <= EPSILON and
\* |a.y - b.y| <= EPSILON, and a == b holds iff b == a.
C12_EqualityIsTolerance ==
    (vecLast.op = "eq")
        => /\ vecLast.ret = (/\ LeEpsilon(FAbs(FSub(vec[1].x, vecLast.rhs.x)))
                             /\ LeEpsilon(FAbs(FSub(vec[1].y, vecLast.rhs.y))))
           /\ vecLast.ret = vecLast.mirrored

\* C13: a run of rotate calls leaves the vector it started from turned about
\* the origin by the sum of the angles of the run, its length kept; so
\* rotate(t) followed by rotate(-t) restores x and y.
C13_RotateTurnsAboutOrigin ==
    (vecLast.op = "rotate" /\ vecLast.origin.x # NaN /\ vecLast.origin.y # NaN)
        => /\ vec[1].x = QuarterTurns(vecLast.origin.x, vecLast.origin.y, vecLast.turned)[1]
           /\ vec[1].y = QuarterTurns(vecLast.origin.x, vecLast.origin.y, vecLast.turned)[2]
           /\ vec[1].len = vecLast.origin.len


\* -a on f64
FNeg(a) == IF a = NaN THEN NaN ELSE -a

\* C14: v.dot(w) and w.dot(v) return the same value, v.cross(w) returns the
\* negation of w.cross(v), and neither call changes v.
C14_DotCrossSymmetry ==
    [][(vecLast'.op \in {"dot", "cross"})
          => /\ vec' = vec
             /\ vecLast'.op = "dot" =>
                   /\ vecLast'.num = Vector2_dot(vec[1], vecLast'.rhs)
                   /\ vecLast'.num = vecLast'.swapped
             /\ vecLast'.op = "cross" =>
                   /\ vecLast'.num = Vector2_cross(vec[1], vecLast'.rhs)
                   /\ vecLast'.num = FNeg(vecLast'.swapped)]_vars

\* C14 witness: a cross product that is not zero, taken after the vector was
\* changed
C14_Witness ==
    /\ vecLast.op = "cross"
    /\ calls = 2
    /\ vecLast.num # NaN
    /\ vecLast.num > 0
    /\ vecLast.swapped < 0

=============================================================================
